---- MODULE Spec2Model ----
(***************************************************************************)
(* xk6-output-dynatrace: the layered configuration merge                   *)
(* (pkg/dynatracewriter/config.go) and the periodic flush pipeline of the  *)
(* Output (the second source file, src/unnamed/part_000).                  *)
(*                                                                         *)
(* Five specifications share the variables:                                *)
(*   SpecMerge     GetConsolidatedConfig over bounded inputs               *)
(*   SpecFinalize  Config.ConstructConfig over bounded configs             *)
(*   SpecNew       New: the merge, then the finalize                       *)
(*   Spec          the Output: Start, AddMetricSamples, flush, Stop        *)
(*   SpecProcess   the flushers of several Outputs of one process, which   *)
(*                 share flushTooLong                                      *)
(*                                                                         *)
(* Texts are TLA+ strings; durations are whole seconds.                    *)
(***************************************************************************)
EXTENDS Integers, Sequences, FiniteSets, TLC

VARIABLES
    \* ---- GetConsolidatedConfig(jsonRawConf, env, arg) -------------------
    jsonRawConf,   \* the JSON blob: [kind, fields, headers]
    env,           \* the environment: name -> text
    arg,           \* the argument string as strvals reads it: [kind, params, headers]
    cfgPc,         \* "start" | "merged" | "idle" (not under this specification)
    result,        \* the Config GetConsolidatedConfig returns
    err,           \* the error it returns ("" is nil)
    \* ---- Config.ConstructConfig() ---------------------------------------
    conf,          \* the receiver (Headers is the map the caller shares)
    conf0,         \* the receiver as it was before the first call
    finPc,         \* "new" | "ok" | "failed" | "idle"
    finErr,        \* the error of the last call
    finCalls,      \* calls made so far
    finUrls,       \* the Url after each successful call, in order
    \* ---- the Output and its flush ----------------------------------------
    alive,             \* the process runs (logger.Fatal has not exited it)
    flushTooLong,      \* the package variable
    now,               \* the clock, in seconds
    config,            \* o.config, the part flush reads: [FlushPeriod]
    periodicFlusher,   \* "nil" | "running" | "stopping" | "stopped"
    buffer,            \* o.SampleBuffer: the containers not yet drained
    nextId,            \* the containers handed to AddMetricSamples so far
    pc,                \* flush: "idle" | "convert" | "send" | "return" | "off"
    final,             \* this flush is the one Stop asked for
    start,             \* flush's local: time.Now() at its start
    samplesContainers, \* flush's local: what GetBufferedSamples returned
    idx,               \* convert: the next container of samplesContainers
    dynTimeSeries,     \* convert: the records produced so far
    nts,               \* flush's local: len(dynatraceMetric)
    d,                 \* the elapsed times the returned flushes measured, in order
    flushes,           \* flushes started so far
    lastSend,          \* "none" | "2xx" | "non2xx" | "error"
    drained,           \* the ids of the containers the drains returned, in order
    stopPc,            \* Stop found flush "idle" or "busy" ("none": not called)
    \* ---- several Outputs in one process ----------------------------------
    outs,              \* Output -> [pc, tick, start, seen, inFlight]
    \* ---- New(params) ------------------------------------------------------
    newPc,             \* "start" | "returned" | "idle"
    newOutput,         \* what New returns: [isNil, config]
    newErr             \* the error New returns ("" is nil)

cfgVars == <<jsonRawConf, env, arg, cfgPc, result, err>>
finVars == <<conf, conf0, finPc, finErr, finCalls, finUrls>>
outVars == <<alive, flushTooLong, now, config, periodicFlusher, buffer, nextId, pc,
             final, start, samplesContainers, idx, dynTimeSeries, nts, d, flushes,
             lastSend, drained, stopPc>>
procVars == <<outs>>
newVars == <<newPc, newOutput, newErr>>
vars == <<cfgVars, finVars, outVars, procVars, newVars>>

----------------------------------------------------------------------------
(* Constants of config.go                                                  *)

defaultFlushPeriod == 1
defaultDynatraceMetricEndPoint == "/api/v2/metrics/ingest"
DefaultUrl == "https://dynatrace.live.com"

(* Constant of the Output's convert                                        *)
HighWaterMark == 150000

(* Bounds of the model                                                     *)
MaxTime == 2         \* seconds the clock runs
MaxContainers == 3   \* containers handed to AddMetricSamples
MaxFlushes == 2      \* flushes started
MaxEntries == 2      \* (layer, item) entries the three layers hold together
MaxFinalize == 2     \* calls of ConstructConfig on one Config
NumOutputs == 2      \* Outputs built in one process

----------------------------------------------------------------------------
(* The nullable wrappers (gopkg.in/guregu/null.v3, k6 lib/types)           *)

BoolFrom(b) == [Bool |-> b, Valid |-> TRUE]
NewBool(b, valid) == [Bool |-> b, Valid |-> valid]
StringFrom(s) == [String |-> s, Valid |-> TRUE]
NewString(s, valid) == [String |-> s, Valid |-> valid]
NullDurationFrom(dur) == [Duration |-> dur, Valid |-> TRUE]
ZeroDuration == [Duration |-> 0, Valid |-> FALSE]

EmptyMap == [k \in {} |-> ""]

\* Config{}: the zero value every decoder starts from
ZeroConfig ==
    [Url |-> "",
     Headers |-> EmptyMap,
     InsecureSkipTLSVerify |-> NewBool(FALSE, FALSE),
     CACert |-> NewString("", FALSE),
     ApiToken |-> NewString("", FALSE),
     FlushPeriod |-> ZeroDuration,
     KeepTags |-> NewBool(FALSE, FALSE),
     KeepNameTag |-> NewBool(FALSE, FALSE),
     KeepUrlTag |-> NewBool(FALSE, FALSE)]

NewConfig ==
    [Url |-> DefaultUrl,
     InsecureSkipTLSVerify |-> BoolFrom(TRUE),
     CACert |-> NewString("", FALSE),
     ApiToken |-> NewString("", FALSE),
     FlushPeriod |-> NullDurationFrom(defaultFlushPeriod),
     KeepTags |-> BoolFrom(TRUE),
     KeepNameTag |-> BoolFrom(FALSE),
     KeepUrlTag |-> BoolFrom(TRUE),
     Headers |-> EmptyMap]

----------------------------------------------------------------------------
(* Text conversions                                                        *)

\* strconv.ParseBool: the texts it accepts, anything else is an error
ParseBool(text) ==
    IF text \in {"1", "t", "T", "TRUE", "true", "True"}
    THEN [err |-> "", b |-> TRUE]
    ELSE IF text \in {"0", "f", "F", "FALSE", "false", "False"}
    THEN [err |-> "", b |-> FALSE]
    ELSE [err |-> "strconv.ParseBool: invalid syntax", b |-> FALSE]

\* types.ParseExtendedDuration on the duration texts of the model (seconds)
ParseExtendedDuration(text) ==
    CASE text = "1s" -> [err |-> "", d |-> 1]
      [] text = "2s" -> [err |-> "", d |-> 2]
      [] text = "3s" -> [err |-> "", d |-> 3]
      [] text = "5s" -> [err |-> "", d |-> 5]
      [] text = "1m" -> [err |-> "", d |-> 60]
      [] OTHER -> [err |-> "time: invalid duration", d |-> 0]

\* (*NullDuration).UnmarshalText: the empty text resets the receiver to the
\* null duration, any other text must parse
UnmarshalText(nd, text) ==
    IF text = ""
    THEN [err |-> "", d |-> ZeroDuration]
    ELSE LET p == ParseExtendedDuration(text)
         IN  IF p.err # ""
             THEN [err |-> p.err, d |-> nd]
             ELSE [err |-> "", d |-> NullDurationFrom(p.d)]

----------------------------------------------------------------------------
(* Config.Apply                                                            *)

\* for k, v := range applied.Headers { base.Headers[k] = v }
MergeHeaders(base, applied) ==
    [k \in (DOMAIN base) \cup (DOMAIN applied) |->
        IF k \in DOMAIN applied THEN applied[k] ELSE base[k]]

\* a merge that assigns every field of the applied Config, set or not
MutApplyBlanks(base, applied) ==
    [applied EXCEPT !.Headers = MergeHeaders(base.Headers, applied.Headers)]

\* a merge that replaces the header map instead of merging it by key
MutApplyReplacesHeaders(base, applied) ==
    [Url |-> IF Len(applied.Url) > 0 THEN applied.Url ELSE base.Url,
     InsecureSkipTLSVerify |->
        IF applied.InsecureSkipTLSVerify.Valid
        THEN applied.InsecureSkipTLSVerify ELSE base.InsecureSkipTLSVerify,
     CACert |-> IF applied.CACert.Valid THEN applied.CACert ELSE base.CACert,
     ApiToken |-> IF applied.ApiToken.Valid THEN applied.ApiToken ELSE base.ApiToken,
     FlushPeriod |->
        IF applied.FlushPeriod.Valid THEN applied.FlushPeriod ELSE base.FlushPeriod,
     KeepTags |-> IF applied.KeepTags.Valid THEN applied.KeepTags ELSE base.KeepTags,
     KeepNameTag |->
        IF applied.KeepNameTag.Valid THEN applied.KeepNameTag ELSE base.KeepNameTag,
     KeepUrlTag |->
        IF applied.KeepUrlTag.Valid THEN applied.KeepUrlTag ELSE base.KeepUrlTag,
     Headers |->
        IF Cardinality(DOMAIN applied.Headers) > 0
        THEN applied.Headers ELSE base.Headers]

Apply(base, applied) ==
    [Url |-> IF Len(applied.Url) > 0 THEN applied.Url ELSE base.Url,
     InsecureSkipTLSVerify |->
        IF applied.InsecureSkipTLSVerify.Valid
        THEN applied.InsecureSkipTLSVerify ELSE base.InsecureSkipTLSVerify,
     CACert |-> IF applied.CACert.Valid THEN applied.CACert ELSE base.CACert,
     ApiToken |-> IF applied.ApiToken.Valid THEN applied.ApiToken ELSE base.ApiToken,
     FlushPeriod |->
        IF applied.FlushPeriod.Valid THEN applied.FlushPeriod ELSE base.FlushPeriod,
     KeepTags |-> IF applied.KeepTags.Valid THEN applied.KeepTags ELSE base.KeepTags,
     KeepNameTag |->
        IF applied.KeepNameTag.Valid THEN applied.KeepNameTag ELSE base.KeepNameTag,
     KeepUrlTag |->
        IF applied.KeepUrlTag.Valid THEN applied.KeepUrlTag ELSE base.KeepUrlTag,
     Headers |->
        IF Cardinality(DOMAIN applied.Headers) > 0
        THEN MergeHeaders(base.Headers, applied.Headers) ELSE base.Headers]

----------------------------------------------------------------------------
(* The configuration items.  A scalar field is named by its JSON key,      *)
(* which is also its key in the argument string.                           *)

StringFields == {"url", "caCertFile", "apitoken"}
BoolFields == {"insecureSkipTLSVerify", "keepTags", "keepNameTag", "keepUrlTag"}
DurationFields == {"flushPeriod"}
Fields == StringFields \cup BoolFields \cup DurationFields
HeaderKeys == {"_A", "_B"}
Items == Fields \cup {"headers"}

\* the envconfig name of a field
EnvName(f) ==
    CASE f = "url" -> "K6_DYNATRACE_URL"
      [] f = "insecureSkipTLSVerify" -> "K6_DYNATRACE_INSECURE_SKIP_TLS_VERIFY"
      [] f = "caCertFile" -> "K6_CA_CERT_FILE"
      [] f = "apitoken" -> "K6_DYNATRACE_APITOKEN"
      [] f = "flushPeriod" -> "K6_DYNATRACE_FLUSH_PERIOD"
      [] f = "keepTags" -> "K6_KEEP_TAGS"
      [] f = "keepNameTag" -> "K6_KEEP_NAME_TAG"
      [] f = "keepUrlTag" -> "K6_KEEP_URL_TAG"

HeaderPrefix == "K6_DYNATRACE_HEADER"

\* the field of a Config by its key
Get(c, f) ==
    CASE f = "url" -> c.Url
      [] f = "insecureSkipTLSVerify" -> c.InsecureSkipTLSVerify
      [] f = "caCertFile" -> c.CACert
      [] f = "apitoken" -> c.ApiToken
      [] f = "flushPeriod" -> c.FlushPeriod
      [] f = "keepTags" -> c.KeepTags
      [] f = "keepNameTag" -> c.KeepNameTag
      [] f = "keepUrlTag" -> c.KeepUrlTag

----------------------------------------------------------------------------
(* json.Unmarshal(jsonRawConf, &jsonConf) into a zero Config.  A JSON      *)
(* value is [t |-> "null" | "str" | "bool", v |-> its text].               *)

JsonHas(raw, k, t) == k \in DOMAIN raw.fields /\ raw.fields[k].t = t
\* a value of the wrong JSON type for the field is an UnmarshalTypeError
JsonMistyped(raw, k, t) ==
    k \in DOMAIN raw.fields /\ raw.fields[k].t \notin {t, "null"}
JsonString(raw, k) ==
    IF JsonHas(raw, k, "str") THEN StringFrom(raw.fields[k].v)
    ELSE NewString("", FALSE)
JsonBool(raw, k) ==
    IF JsonHas(raw, k, "bool") THEN BoolFrom(raw.fields[k].v = "true")
    ELSE NewBool(FALSE, FALSE)
JsonDuration(raw, k) ==
    IF JsonHas(raw, k, "str")
    THEN NullDurationFrom(ParseExtendedDuration(raw.fields[k].v).d)
    ELSE ZeroDuration

JsonUnmarshal(raw) ==
    IF \/ raw.kind = "malformed"
       \/ \E k \in StringFields \cup DurationFields : JsonMistyped(raw, k, "str")
       \/ \E k \in BoolFields : JsonMistyped(raw, k, "bool")
       \/ /\ JsonHas(raw, "flushPeriod", "str")
          /\ ParseExtendedDuration(raw.fields["flushPeriod"].v).err # ""
    THEN [err |-> "json: cannot unmarshal", c |-> ZeroConfig]
    ELSE [err |-> "",
          c |-> [Url |-> IF JsonHas(raw, "url", "str")
                         THEN raw.fields["url"].v ELSE "",
                 Headers |-> raw.headers,
                 InsecureSkipTLSVerify |-> JsonBool(raw, "insecureSkipTLSVerify"),
                 CACert |-> JsonString(raw, "caCertFile"),
                 ApiToken |-> JsonString(raw, "apitoken"),
                 FlushPeriod |-> JsonDuration(raw, "flushPeriod"),
                 KeepTags |-> JsonBool(raw, "keepTags"),
                 KeepNameTag |-> JsonBool(raw, "keepNameTag"),
                 KeepUrlTag |-> JsonBool(raw, "keepUrlTag")]]

----------------------------------------------------------------------------
(* ParseArg.  strvals.Parse yields params: key -> typed value              *)
(* [t |-> "str" | "bool" | "int", v |-> its text]; the code keeps a value  *)
(* only when the type assertion for its field succeeds.                    *)

ParamIs(a, k, t) == k \in DOMAIN a.params /\ a.params[k].t = t
ArgString(a, k) ==
    IF ParamIs(a, k, "str") THEN StringFrom(a.params[k].v) ELSE NewString("", FALSE)
ArgBool(a, k) ==
    IF ParamIs(a, k, "bool") THEN BoolFrom(a.params[k].v = "true")
    ELSE NewBool(FALSE, FALSE)

ParseArg(a) ==
    IF a.kind = "malformed"
    THEN [err |-> "strvals: parse error", c |-> ZeroConfig]
    ELSE LET fp == IF ParamIs(a, "flushPeriod", "str")
                   THEN UnmarshalText(ZeroDuration, a.params["flushPeriod"].v)
                   ELSE [err |-> "", d |-> ZeroDuration]
             early ==
                 \* the fields assigned before flushPeriod is read
                 [ZeroConfig EXCEPT
                    !.Url = IF ParamIs(a, "url", "str") THEN a.params["url"].v ELSE "",
                    !.InsecureSkipTLSVerify = ArgBool(a, "insecureSkipTLSVerify"),
                    !.CACert = ArgString(a, "caCertFile"),
                    !.ApiToken = ArgString(a, "apitoken")]
         IN  IF fp.err # ""
             THEN [err |-> fp.err, c |-> early]
             ELSE [err |-> "",
                   c |-> [early EXCEPT
                            !.FlushPeriod = fp.d,
                            !.KeepTags = ArgBool(a, "keepTags"),
                            !.KeepNameTag = ArgBool(a, "keepNameTag"),
                            !.KeepUrlTag = ArgBool(a, "keepUrlTag"),
                            !.Headers =
                                [k \in {h \in DOMAIN a.headers : a.headers[h].t = "str"}
                                   |-> a.headers[k].v]]]

----------------------------------------------------------------------------
(* GetConsolidatedConfig: defaults, then JSON, then the environment, then  *)
(* the argument string.  Every stage takes and returns [c, err]; a stage   *)
(* after an error is skipped, which is the early return of the code.       *)

\* a text that does not parse taken as an undefined variable
MutGetEnvBoolSwallows(e, name) ==
    IF name \in DOMAIN e /\ ParseBool(e[name]).err = ""
    THEN [err |-> "", b |-> BoolFrom(ParseBool(e[name]).b)]
    ELSE [err |-> "", b |-> NewBool(FALSE, FALSE)]

\* getEnvBool: undefined is the null Bool, defined must parse
getEnvBool(e, name) ==
    IF name \in DOMAIN e
    THEN LET p == ParseBool(e[name])
         IN  IF p.err # ""
             THEN [err |-> p.err, b |-> NewBool(FALSE, FALSE)]
             ELSE [err |-> "", b |-> BoolFrom(p.b)]
    ELSE [err |-> "", b |-> NewBool(FALSE, FALSE)]

\* getEnvMap: every variable whose name starts with the prefix, keyed by the
\* rest of its name (the names of the model with the prefix are
\* HeaderPrefix \o k for k in HeaderKeys)
getEnvMap(e, prefix) ==
    [k \in {h \in HeaderKeys : (prefix \o h) \in DOMAIN e} |-> e[prefix \o k]]

StageJson(raw) ==
    IF raw.kind = "nil"
    THEN [c |-> NewConfig, err |-> ""]
    ELSE LET u == JsonUnmarshal(raw)
         IN  IF u.err # ""
             THEN [c |-> NewConfig, err |-> u.err]
             ELSE [c |-> Apply(NewConfig, u.c), err |-> ""]

StageEnvFlushPeriod(r, e) ==
    IF r.err # "" \/ "K6_DYNATRACE_FLUSH_PERIOD" \notin DOMAIN e THEN r
    ELSE LET u == UnmarshalText(r.c.FlushPeriod, e["K6_DYNATRACE_FLUSH_PERIOD"])
         IN  [c |-> [r.c EXCEPT !.FlushPeriod = u.d], err |-> u.err]

StageEnvUrl(r, e) ==
    IF r.err # "" \/ "K6_DYNATRACE_URL" \notin DOMAIN e THEN r
    ELSE [r EXCEPT !.c.Url = e["K6_DYNATRACE_URL"]]

StageEnvString(r, e, f) ==
    IF r.err # "" \/ EnvName(f) \notin DOMAIN e THEN r
    ELSE IF f = "caCertFile"
    THEN [r EXCEPT !.c.CACert = StringFrom(e[EnvName(f)])]
    ELSE [r EXCEPT !.c.ApiToken = StringFrom(e[EnvName(f)])]

StageEnvBool(r, e, f) ==
    IF r.err # "" THEN r
    ELSE LET g == getEnvBool(e, EnvName(f))
         IN  IF g.err # "" THEN [r EXCEPT !.err = g.err]
             ELSE IF ~g.b.Valid THEN r
             ELSE CASE f = "insecureSkipTLSVerify" ->
                         [r EXCEPT !.c.InsecureSkipTLSVerify = g.b]
                    [] f = "keepTags" -> [r EXCEPT !.c.KeepTags = g.b]
                    [] f = "keepNameTag" -> [r EXCEPT !.c.KeepNameTag = g.b]
                    [] f = "keepUrlTag" -> [r EXCEPT !.c.KeepUrlTag = g.b]

StageEnvHeaders(r, e) ==
    IF r.err # "" THEN r
    ELSE [r EXCEPT !.c.Headers = MergeHeaders(r.c.Headers, getEnvMap(e, HeaderPrefix))]

StageArg(r, a) ==
    IF r.err # "" \/ a.kind = "empty" THEN r
    ELSE LET p == ParseArg(a)
         IN  IF p.err # "" THEN [r EXCEPT !.err = p.err]
             ELSE [c |-> Apply(r.c, p.c), err |-> ""]

\* the environment stages in the order of the code
StageEnv(r, e) ==
    LET s1 == StageEnvFlushPeriod(r, e)
        s2 == StageEnvUrl(s1, e)
        s3 == StageEnvBool(s2, e, "insecureSkipTLSVerify")
        s4 == StageEnvString(s3, e, "caCertFile")
        s5 == StageEnvString(s4, e, "apitoken")
        s6 == StageEnvBool(s5, e, "keepTags")
        s7 == StageEnvBool(s6, e, "keepNameTag")
        s8 == StageEnvBool(s7, e, "keepUrlTag")
    IN  StageEnvHeaders(s8, e)

\* the argument string applied before the environment
MutGetConsolidatedConfigArgFirst(raw, e, a) ==
    StageEnv(StageArg(StageJson(raw), a), e)

GetConsolidatedConfig(raw, e, a) ==
    StageArg(StageEnv(StageJson(raw), e), a)

----------------------------------------------------------------------------
(* The inputs of the merge.  An entry is one item (a scalar field or the   *)
(* header map) given a value by one layer; the three layers together hold  *)
(* at most MaxEntries entries.  The values are unset/null, empty,          *)
(* well-formed, ill-formed or of another type than the field's.            *)

JsonNull == [t |-> "null", v |-> "null"]
JsonStr(x) == [t |-> "str", v |-> x]
JsonBoolean(x) == [t |-> "bool", v |-> x]
Str(x) == [t |-> "str", v |-> x]
Boolean(x) == [t |-> "bool", v |-> x]
Int64(x) == [t |-> "int", v |-> x]

\* the maps from a non-empty subset of the header keys to the values V
HeaderMaps(V) == UNION {[D -> V] : D \in (SUBSET HeaderKeys) \ {{}}}

JsonValues(k) ==
    CASE k = "url" -> {JsonNull, JsonStr(""), JsonStr("https://json.example")}
      [] k = "caCertFile" -> {JsonNull, JsonStr(""), JsonStr("/json/ca.pem")}
      [] k = "apitoken" -> {JsonNull, JsonStr(""), JsonStr("token-json")}
      [] k = "flushPeriod" -> {JsonNull, JsonStr("3s"), JsonStr("soon")}
      [] k \in BoolFields -> {JsonNull, JsonBoolean("true"), JsonBoolean("false")}

EnvValues(k) ==
    CASE k = "url" -> {"", "https://env.example", ":bad"}
      [] k = "caCertFile" -> {"", "/env/ca.pem"}
      [] k = "apitoken" -> {"", "token-env"}
      [] k = "flushPeriod" -> {"", "5s", "soon"}
      [] k \in BoolFields -> {"", "true", "0", "maybe"}

ArgValues(k) ==
    CASE k = "url" -> {Str(""), Str("https://arg.example"), Boolean("true")}
      [] k = "caCertFile" -> {Str(""), Str("/arg/ca.pem"), Int64("7")}
      [] k = "apitoken" -> {Str(""), Str("token-arg"), Int64("12345")}
      [] k = "flushPeriod" -> {Str(""), Str("2s"), Str("soon"), Int64("5")}
      [] k \in BoolFields -> {Boolean("true"), Boolean("false"), Str("yes")}

JsonHeaderMaps == HeaderMaps({"from-json"})
EnvHeaderMaps == HeaderMaps({"", "from-env"})
ArgHeaderMaps == HeaderMaps({Str("from-arg"), Int64("7")})

\* the functions that give each key k of K a value of V(k)
TotalFns(K, V(_)) ==
    {f \in [K -> UNION {V(k) : k \in K}] : \A k \in K : f[k] \in V(k)}

HeadersOf(K, maps) == IF "headers" \in K THEN maps ELSE {EmptyMap}

\* the JSON blobs that mention exactly the items K
JsonBlobs(K) ==
    (IF K = {}
     THEN {[kind |-> "nil", fields |-> EmptyMap, headers |-> EmptyMap],
           [kind |-> "malformed", fields |-> EmptyMap, headers |-> EmptyMap]}
     ELSE {})
    \cup {[kind |-> "object", fields |-> f, headers |-> h] :
            f \in TotalFns(K \cap Fields, JsonValues),
            h \in HeadersOf(K, JsonHeaderMaps)}

\* the environments that define exactly the variables of the items K
Envs(K) ==
    {[n \in {EnvName(k) : k \in DOMAIN f} \cup {HeaderPrefix \o k : k \in DOMAIN h} |->
         IF \E k \in DOMAIN h : HeaderPrefix \o k = n
         THEN h[CHOOSE k \in DOMAIN h : HeaderPrefix \o k = n]
         ELSE f[CHOOSE k \in DOMAIN f : EnvName(k) = n]] :
       f \in TotalFns(K \cap Fields, EnvValues),
       h \in HeadersOf(K, EnvHeaderMaps)}

\* the argument strings that mention exactly the items K
Args(K) ==
    (IF K = {}
     THEN {[kind |-> "empty", params |-> EmptyMap, headers |-> EmptyMap],
           [kind |-> "malformed", params |-> EmptyMap, headers |-> EmptyMap]}
     ELSE {[kind |-> "params", params |-> f, headers |-> h] :
            f \in TotalFns(K \cap Fields, ArgValues),
            h \in HeadersOf(K, ArgHeaderMaps)})

Layers == {"json", "env", "arg"}
\* the subsets of S with at most n elements
RECURSIVE SubsetsUpTo(_, _)
SubsetsUpTo(S, n) ==
    IF n = 0 THEN {{}}
    ELSE LET smaller == SubsetsUpTo(S, n - 1)
         IN  smaller \cup {A \cup {x} : A \in smaller, x \in S}
Entries == SubsetsUpTo(Layers \X Items, MaxEntries)
ItemsOf(E, layer) == {k \in Items : <<layer, k>> \in E}

----------------
(* Config.ConstructConfig: not running under the merge                     *)

FinIdle ==
    /\ conf = ZeroConfig
    /\ conf0 = ZeroConfig
    /\ finPc = "idle"
    /\ finErr = ""
    /\ finCalls = 0
    /\ finUrls = << >>

\* the Output: not built under the merge and the finalize
OutIdle ==
    /\ alive = TRUE
    /\ flushTooLong = FALSE
    /\ now = 0
    /\ config = [FlushPeriod |-> NewConfig.FlushPeriod]
    /\ periodicFlusher = "nil"
    /\ buffer = << >>
    /\ nextId = 0
    /\ pc = "off"
    /\ final = FALSE
    /\ start = 0
    /\ samplesContainers = << >>
    /\ idx = 1
    /\ dynTimeSeries = << >>
    /\ nts = 0
    /\ d = << >>
    /\ flushes = 0
    /\ lastSend = "none"
    /\ drained = << >>
    /\ stopPc = "none"

\* no further Outputs, and New not under way
ProcIdle == outs = << >>
NewIdle ==
    /\ newPc = "idle"
    /\ newOutput = [isNil |-> TRUE, config |-> ZeroConfig]
    /\ newErr = ""

----------------------------------------------------------------------------
(* SpecMerge: one call of GetConsolidatedConfig on each input              *)

InitMerge ==
    /\ \E E \in Entries :
          /\ jsonRawConf \in JsonBlobs(ItemsOf(E, "json"))
          /\ env \in Envs(ItemsOf(E, "env"))
          /\ arg \in Args(ItemsOf(E, "arg"))
    /\ cfgPc = "start"
    /\ result = ZeroConfig
    /\ err = ""
    /\ FinIdle
    /\ OutIdle
    /\ ProcIdle
    /\ NewIdle

CallGetConsolidatedConfig ==
    /\ cfgPc = "start"
    /\ LET r == GetConsolidatedConfig(jsonRawConf, env, arg)
       IN  /\ result' = r.c
           /\ err' = r.err
    /\ cfgPc' = "merged"
    /\ UNCHANGED <<jsonRawConf, env, arg, finVars, outVars, procVars, newVars>>

NextMerge == CallGetConsolidatedConfig

SpecMerge == InitMerge /\ [][NextMerge]_vars

----------------------------------------------------------------------------
(* What each layer says about a field, read off the raw inputs:            *)
(*   "none"     the layer does not mention it, or gives JSON null          *)
(*   "empty"    the layer gives it the empty text                          *)
(*   "mistyped" the argument string gives it a value of another type       *)
(*   "value"    the layer gives it a non-empty value of its type           *)

TypeOf(k) == IF k \in BoolFields THEN "bool" ELSE "str"

\* the text the layer gives field k (only where the layer mentions k)
LayerText(layer, k) ==
    CASE layer = "json" -> jsonRawConf.fields[k].v
      [] layer = "env" -> env[EnvName(k)]
      [] layer = "arg" -> arg.params[k].v

LayerSays(layer, k) ==
    CASE layer = "json" ->
            IF k \notin DOMAIN jsonRawConf.fields \/ jsonRawConf.fields[k].t = "null"
            THEN "none"
            ELSE IF jsonRawConf.fields[k].v = "" THEN "empty" ELSE "value"
      [] layer = "env" ->
            IF EnvName(k) \notin DOMAIN env THEN "none"
            ELSE IF env[EnvName(k)] = "" THEN "empty" ELSE "value"
      [] layer = "arg" ->
            IF k \notin DOMAIN arg.params THEN "none"
            ELSE IF arg.params[k].t # TypeOf(k) THEN "mistyped"
            ELSE IF arg.params[k].v = "" THEN "empty" ELSE "value"

\* a text as a value of field k
AsField(k, text) ==
    CASE k = "url" -> text
      [] k \in {"caCertFile", "apitoken"} -> [String |-> text, Valid |-> TRUE]
      [] k \in BoolFields -> [Bool |-> text \in {"true", "1"}, Valid |-> TRUE]
      [] k = "flushPeriod" ->
            [Duration |-> CASE text = "2s" -> 2 [] text = "3s" -> 3
                            [] text = "5s" -> 5 [] OTHER -> 0,
             Valid |-> TRUE]

\* the value of the highest-precedence layer that gives k a non-empty value
\* of its type, the built-in default when none does
Expected(k) ==
    IF LayerSays("arg", k) = "value" THEN AsField(k, LayerText("arg", k))
    ELSE IF LayerSays("env", k) = "value" THEN AsField(k, LayerText("env", k))
    ELSE IF LayerSays("json", k) = "value" THEN AsField(k, LayerText("json", k))
    ELSE Get(NewConfig, k)

Merged == cfgPc = "merged" /\ err = ""

AbsentAfter(layer, k) ==
    /\ layer \in {"default", "json", "env"} => k \notin DOMAIN arg.params
    /\ layer \in {"default", "json"} => EnvName(k) \notin DOMAIN env
    /\ layer = "default" => k \notin DOMAIN jsonRawConf.fields

\* C2: after a successful merge a field that an earlier layer (defaults,
\* JSON, environment) sets and that no later layer mentions still has the
\* earlier layer's value, whatever else the later layers set.
C2_NoBlanking ==
    Merged =>
        \A k \in Fields :
            /\ AbsentAfter("default", k) => Get(result, k) = Get(NewConfig, k)
            /\ \A l \in {"json", "env"} :
                  (LayerSays(l, k) = "value" /\ AbsentAfter(l, k))
                      => Get(result, k) = AsField(k, LayerText(l, k))

C2_Witness ==
    /\ Merged
    /\ LayerSays("json", "apitoken") = "value"
    /\ DOMAIN arg.params = {"keepTags"}
    /\ arg.params["keepTags"] = Boolean("false")
    /\ result.ApiToken = [String |-> "token-json", Valid |-> TRUE]
    /\ result.KeepTags = [Bool |-> FALSE, Valid |-> TRUE]
    /\ result.FlushPeriod = [Duration |-> 1, Valid |-> TRUE]

\* what a field value says: the text of a nullable string, else the value
Effective(k, v) == IF k \in {"caCertFile", "apitoken"} THEN v.String ELSE v

\* C3: in every layer a null or empty value counts as unset: after a
\* successful merge every field (on which the argument string is not
\* mistyped) carries the value of the highest-precedence layer that gives
\* it a non-empty value, so an empty value never overrides an earlier one.
C3_EmptyNeverOverrides ==
    Merged =>
        \A k \in Fields :
            LayerSays("arg", k) # "mistyped"
                => Effective(k, Get(result, k)) = Effective(k, Expected(k))

\* the value the latest layer that has header key h gives it
HeaderSays(layer, h) ==
    CASE layer = "json" -> IF h \in DOMAIN jsonRawConf.headers THEN "value" ELSE "none"
      [] layer = "env" -> IF (HeaderPrefix \o h) \in DOMAIN env THEN "value" ELSE "none"
      [] layer = "arg" ->
            IF h \notin DOMAIN arg.headers THEN "none"
            ELSE IF arg.headers[h].t # "str" THEN "mistyped" ELSE "value"

----------------------------------------------------------------------------
(* Config.ConstructConfig                                                  *)

\* url.Parse on the texts of the model: a text that starts with a colon
\* has no protocol scheme
UrlParse(text) ==
    IF text \in {":bad" \o defaultDynatraceMetricEndPoint}
    THEN [err |-> "parse: missing protocol scheme", u |-> ""]
    ELSE [err |-> "", u |-> text]

\* (*url.URL).String on the texts of the model: the scheme comes back in
\* lower case; host and path come back as written (no slash is collapsed)
UrlString(u) ==
    IF u = "HTTPS://x.example" \o defaultDynatraceMetricEndPoint
    THEN "https://x.example" \o defaultDynatraceMetricEndPoint
    ELSE u

\* the three fixed headers written into the map
FixedHeaders(token) ==
    [h \in {"Content-Type", "Authorization", "accept"} |->
        CASE h = "Content-Type" -> "text/plain; charset=utf-8"
          [] h = "Authorization" -> "Api-Token " \o token
          [] h = "accept" -> "*/*"]

\* the headers written before the token is looked at
MutConstructConfigHeadersFirst(c) ==
    LET p == UrlParse(c.Url \o defaultDynatraceMetricEndPoint)
        hs == MergeHeaders(c.Headers, FixedHeaders(c.ApiToken.String))
    IN  IF p.err # ""
        THEN [err |-> p.err, c |-> c, headers |-> c.Headers]
        ELSE IF Len(c.ApiToken.String) = 0
        THEN [err |-> "The Dynatrace API token can not been empty or Null",
              c |-> c, headers |-> hs]
        ELSE [err |-> "", headers |-> hs,
              c |-> [c EXCEPT !.Headers = hs, !.Url = UrlString(p.u)]]

\* Returns [err, c, headers]: c is the Config behind the returned pointer
\* (the receiver itself when the call fails, where the code returns nil),
\* headers is the receiver's map after the call: the receiver is a copy
\* but its map is the caller's.
ConstructConfig(c) ==
    LET p == UrlParse(c.Url \o defaultDynatraceMetricEndPoint)
    IN  IF p.err # ""
        THEN [err |-> p.err, c |-> c, headers |-> c.Headers]
        ELSE IF Len(c.ApiToken.String) = 0
        THEN [err |-> "The Dynatrace API token can not been empty or Null",
              c |-> c, headers |-> c.Headers]
        ELSE LET hs == MergeHeaders(c.Headers, FixedHeaders(c.ApiToken.String))
             IN  [err |-> "", headers |-> hs,
                  c |-> [c EXCEPT !.Headers = hs, !.Url = UrlString(p.u)]]

----------------------------------------------------------------------------
(* SpecFinalize: ConstructConfig on a Config, then again on its result     *)

FinUrls ==
    {DefaultUrl, "https://x.example", "https://x.example/", "HTTPS://x.example",
     "", ":bad"}
FinTokens == {NewString("", FALSE), StringFrom(""), StringFrom("abc")}
FinHeaders ==
    {EmptyMap,
     [h \in {"_A"} |-> "from-json"],
     [h \in {"Authorization"} |-> "Bearer old"],
     [h \in {"_A", "accept"} |-> IF h = "_A" THEN "from-arg" ELSE "text/csv"]}

CfgIdle ==
    /\ jsonRawConf = [kind |-> "nil", fields |-> EmptyMap, headers |-> EmptyMap]
    /\ env = EmptyMap
    /\ arg = [kind |-> "empty", params |-> EmptyMap, headers |-> EmptyMap]
    /\ cfgPc = "idle"
    /\ result = ZeroConfig
    /\ err = ""

InitFinalize ==
    /\ \E u \in FinUrls, t \in FinTokens, hs \in FinHeaders, keep \in BOOLEAN :
          conf = [NewConfig EXCEPT !.Url = u, !.ApiToken = t, !.Headers = hs,
                                   !.KeepNameTag = BoolFrom(keep)]
    /\ conf0 = conf
    /\ finPc = "new"
    /\ finErr = ""
    /\ finCalls = 0
    /\ finUrls = << >>
    /\ CfgIdle
    /\ OutIdle
    /\ ProcIdle
    /\ NewIdle

CallConstructConfig ==
    /\ finPc \in {"new", "ok"}
    /\ finCalls < MaxFinalize
    /\ LET r == ConstructConfig(conf)
       IN  /\ finErr' = r.err
           /\ IF r.err = ""
              THEN /\ conf' = r.c
                   /\ finPc' = "ok"
                   /\ finUrls' = Append(finUrls, r.c.Url)
              ELSE /\ conf' = [conf EXCEPT !.Headers = r.headers]
                   /\ finPc' = "failed"
                   /\ finUrls' = finUrls
    /\ finCalls' = finCalls + 1
    /\ UNCHANGED <<conf0, cfgVars, outVars, procVars, newVars>>

NextFinalize == CallConstructConfig

SpecFinalize == InitFinalize /\ [][NextFinalize]_vars

\* the base URL without its trailing slash, on the URLs of the model
StripSlash(u) == IF u = "https://x.example/" THEN "https://x.example" ELSE u

\* C5: the first finalize of Url "https://x.example/" with token "abc"
\* succeeds with Url "https://x.example/api/v2/metrics/ingest" and header
\* Authorization "Api-Token abc"; every successful first finalize yields
\* the base URL, with or without a trailing slash, followed by exactly one
\* ingestion path.
C5_FinalizedUrl ==
    /\ (finCalls = 1 /\ conf0.Url = "https://x.example/" /\ conf0.ApiToken.String = "abc")
          => /\ finPc = "ok"
             /\ conf.Url = "https://x.example/api/v2/metrics/ingest"
             /\ "Authorization" \in DOMAIN conf.Headers
             /\ conf.Headers["Authorization"] = "Api-Token abc"
    /\ (finCalls = 1 /\ finPc = "ok" /\ conf0.Url \in {"https://x.example", "https://x.example/"})
          => conf.Url = StripSlash(conf0.Url) \o defaultDynatraceMetricEndPoint

\* C6: the Url after a second finalize, made on the result of the first,
\* equals the Url after the first.
C6_NoDoubleAppend ==
    (finCalls = 2 /\ Len(finUrls) = 2) => finUrls[2] = finUrls[1]

\* C7: a finalize of a Config whose API token is empty or unset fails with
\* an error and leaves the header map as it was before the call.
C7_EmptyTokenFails ==
    (finCalls >= 1 /\ Len(conf0.ApiToken.String) = 0)
        => /\ finPc = "failed"
           /\ finErr # ""
           /\ conf.Headers = conf0.Headers

C7_Witness ==
    /\ finCalls = 1
    /\ finPc = "failed"
    /\ conf0.Url = "https://x.example"
    /\ ~conf0.ApiToken.Valid
    /\ finErr = "The Dynatrace API token can not been empty or Null"
    /\ conf.Headers = [h \in {"Authorization"} |-> "Bearer old"]

----------------------------------------------------------------------------
(* The Output.  A container is [id, n]: the id-th container handed to      *)
(* AddMetricSamples, holding n samples.  The records of a conversion are   *)
(* kept container by container: dynTimeSeries is the sequence of the       *)
(* containers converted so far, each standing for its n records in sample  *)
(* order (samleToDynametric yields one record per sample).                 *)

ContainerSizes == {0, 1, HighWaterMark}
FlushPeriods == {1, 2}

\* one record per sample: the records of a sample container
samleToDynametric(container) == container

RECURSIVE Count(_)
\* len(dynTimeSeries): the records the containers of the sequence stand for
Count(seq) == IF seq = << >> THEN 0 ELSE Head(seq).n + Count(Tail(seq))

\* the high-water check made inside the loop over the samples as well: the
\* container is left as soon as the records exceed the mark
MutConvertSamplesChecked(container, tooLong, len) ==
    IF tooLong /\ len + container.n > HighWaterMark
    THEN [id |-> container.id,
          n |-> IF len > HighWaterMark THEN 1 ELSE HighWaterMark + 1 - len]
    ELSE samleToDynametric(container)
\* the loop over the samples of one container: every sample is converted
\* and appended, nothing is looked at in between (len is the number of
\* records before the container)
ConvertSamples(container, tooLong, len) == samleToDynametric(container)

\* o.GetBufferedSamples(): under the buffer's mutex, hands out the
\* buffered containers and leaves a fresh empty buffer
MutGetBufferedSamplesKeeps(buf) == [samples |-> buf, buffer |-> buf]
GetBufferedSamples(buf) == [samples |-> buf, buffer |-> << >>]

\* the check after each container: flushTooLong && len(dynTimeSeries) > 150000
MutBreakNever(tooLong, len) == FALSE
MutBreakIgnoresFlag(tooLong, len) == len > HighWaterMark
BreakAfterContainer(tooLong, len) == tooLong /\ len > HighWaterMark

\* the deferred comparison: d > time.Duration(o.config.FlushPeriod.Duration)
MutTookTooLongSticky(elapsed, period) == flushTooLong \/ elapsed > period
MutTookTooLongAtLeast(elapsed, period) == elapsed >= period
TookTooLong(elapsed, period) == elapsed > period

Init ==
    /\ alive = TRUE
    /\ flushTooLong = FALSE
    /\ now = 0
    /\ \E p \in FlushPeriods : config = [FlushPeriod |-> NullDurationFrom(p)]
    /\ periodicFlusher = "nil"
    /\ buffer = << >>
    /\ nextId = 0
    /\ pc = "idle"
    /\ final = FALSE
    /\ start = 0
    /\ samplesContainers = << >>
    /\ idx = 1
    /\ dynTimeSeries = << >>
    /\ nts = 0
    /\ d = << >>
    /\ flushes = 0
    /\ lastSend = "none"
    /\ drained = << >>
    /\ stopPc = "none"
    /\ CfgIdle
    /\ FinIdle
    /\ ProcIdle
    /\ NewIdle

\* time passes
Advance ==
    /\ alive
    /\ now < MaxTime
    /\ now' = now + 1
    /\ UNCHANGED <<alive, flushTooLong, config, periodicFlusher, buffer, nextId, pc,
                   final, start, samplesContainers, idx, dynTimeSeries, nts, d,
                   flushes, lastSend, drained, stopPc, cfgVars, finVars, procVars, newVars>>

\* Output.Start: the periodic flusher starts ticking
Start ==
    /\ alive
    /\ periodicFlusher = "nil"
    /\ periodicFlusher' = "running"
    /\ UNCHANGED <<alive, flushTooLong, now, config, buffer, nextId, pc, final, start,
                   samplesContainers, idx, dynTimeSeries, nts, d, flushes, lastSend,
                   drained, stopPc, cfgVars, finVars, procVars, newVars>>

\* Stop returning at once, whatever flush is doing
MutStopNoWait ==
    /\ alive
    /\ periodicFlusher = "running"
    /\ periodicFlusher' = "stopped"
    /\ stopPc' = IF pc = "idle" THEN "idle" ELSE "busy"
    /\ UNCHANGED <<alive, flushTooLong, now, config, buffer, nextId, pc, final, start,
                   samplesContainers, idx, dynTimeSeries, nts, d, flushes, lastSend,
                   drained, cfgVars, finVars, procVars, newVars>>

\* Output.Stop: periodicFlusher.Stop() closes the stop channel and waits
\* for the flusher, which runs one last flush and stops ("stopping": Stop
\* is waiting; "stopped": Stop has returned)
Stop ==
    /\ alive
    /\ periodicFlusher = "running"
    /\ periodicFlusher' = "stopping"
    /\ stopPc' = IF pc = "idle" THEN "idle" ELSE "busy"
    /\ UNCHANGED <<alive, flushTooLong, now, config, buffer, nextId, pc, final, start,
                   samplesContainers, idx, dynTimeSeries, nts, d, flushes, lastSend,
                   drained, cfgVars, finVars, procVars, newVars>>

\* SampleBuffer.AddMetricSamples: the engine hands over one container
AddMetricSamples ==
    /\ alive
    /\ nextId < MaxContainers
    /\ \E n \in ContainerSizes :
          buffer' = Append(buffer, [id |-> nextId + 1, n |-> n])
    /\ nextId' = nextId + 1
    /\ UNCHANGED <<alive, flushTooLong, now, config, periodicFlusher, pc, final, start,
                   samplesContainers, idx, dynTimeSeries, nts, d, flushes, lastSend,
                   drained, stopPc, cfgVars, finVars, procVars, newVars>>

\* flush, from its start to the loop of convert: start = time.Now(), the
\* buffer is drained.  The flusher calls it on a tick, and once more when
\* Stop has closed the stop channel.
FlushStart ==
    /\ alive
    /\ pc = "idle"
    /\ flushes < MaxFlushes
    /\ \/ periodicFlusher \in {"running", "stopping"} /\ final' = FALSE
       \/ periodicFlusher = "stopping" /\ final' = TRUE
    /\ start' = now
    /\ LET got == GetBufferedSamples(buffer)
       IN  /\ samplesContainers' = got.samples
           /\ buffer' = got.buffer
           /\ drained' = drained \o [i \in 1..Len(got.samples) |-> got.samples[i].id]
    /\ dynTimeSeries' = << >>
    /\ idx' = 1
    /\ nts' = 0
    /\ flushes' = flushes + 1
    /\ pc' = "convert"
    /\ UNCHANGED <<alive, flushTooLong, now, config, periodicFlusher, nextId, d,
                   lastSend, stopPc, cfgVars, finVars, procVars, newVars>>

\* convert: one round of the loop over samplesContainers
ConvertContainer ==
    /\ alive
    /\ pc = "convert"
    /\ idx <= Len(samplesContainers)
    /\ LET series == Append(dynTimeSeries,
                             ConvertSamples(samplesContainers[idx], flushTooLong,
                                            Count(dynTimeSeries)))
       IN  /\ dynTimeSeries' = series
           /\ idx' = IF BreakAfterContainer(flushTooLong, Count(series))
                     THEN Len(samplesContainers) + 1
                     ELSE idx + 1
    /\ UNCHANGED <<alive, flushTooLong, now, config, periodicFlusher, buffer, nextId,
                   pc, final, start, samplesContainers, nts, d, flushes, lastSend,
                   drained, stopPc, cfgVars, finVars, procVars, newVars>>

\* convert returns: nts = len(dynatraceMetric)
ConvertReturn ==
    /\ alive
    /\ pc = "convert"
    /\ idx > Len(samplesContainers)
    /\ nts' = Count(dynTimeSeries)
    /\ pc' = "send"
    /\ UNCHANGED <<alive, flushTooLong, now, config, periodicFlusher, buffer, nextId,
                   final, start, samplesContainers, idx, dynTimeSeries, d, flushes,
                   lastSend, drained, stopPc, cfgVars, finVars, procVars, newVars>>

\* client.Do answers: any status is taken as success
SendAnswered ==
    /\ alive
    /\ pc = "send"
    /\ \E status \in {"2xx", "non2xx"} : lastSend' = status
    /\ pc' = "return"
    /\ UNCHANGED <<alive, flushTooLong, now, config, periodicFlusher, buffer, nextId,
                   final, start, samplesContainers, idx, dynTimeSeries, nts, d, flushes,
                   drained, stopPc, cfgVars, finVars, procVars, newVars>>

\* client.Do fails: logger.Fatal logs and exits the process; no deferred
\* function runs
SendFailed ==
    /\ alive
    /\ pc = "send"
    /\ lastSend' = "error"
    /\ alive' = FALSE
    /\ UNCHANGED <<flushTooLong, now, config, periodicFlusher, buffer, nextId, pc,
                   final, start, samplesContainers, idx, dynTimeSeries, nts, d, flushes,
                   drained, stopPc, cfgVars, finVars, procVars, newVars>>

\* flush returns: the deferred function measures the elapsed time and
\* writes flushTooLong; after the last flush the flusher is stopped
FlushReturn ==
    /\ alive
    /\ pc = "return"
    /\ d' = Append(d, now - start)
    /\ flushTooLong' = TookTooLong(now - start, config.FlushPeriod.Duration)
    /\ pc' = "idle"
    /\ final' = FALSE
    /\ periodicFlusher' = IF final THEN "stopped" ELSE periodicFlusher
    \* the locals of flush are gone
    /\ start' = 0
    /\ samplesContainers' = << >>
    /\ dynTimeSeries' = << >>
    /\ idx' = 1
    /\ nts' = 0
    /\ UNCHANGED <<alive, now, config, buffer, nextId, flushes, lastSend, drained,
                   stopPc, cfgVars, finVars, procVars, newVars>>

Next ==
    \/ Advance
    \/ Start
    \/ Stop
    \/ AddMetricSamples
    \/ FlushStart
    \/ ConvertContainer
    \/ ConvertReturn
    \/ SendAnswered
    \/ SendFailed
    \/ FlushReturn

Spec == Init /\ [][Next]_vars

\* C8: a transport failure of the send leaves the process alive, so that
\* only that flush cycle is lost and later ticks still flush.
C8_SendFailureContained == lastSend = "error" => alive

\* C9: a step that ends a flush leaves flushTooLong equal to (elapsed time
\* of that flush > flush period), and no other step changes flushTooLong.
C9_FlagFollowsElapsed ==
    [][/\ (pc = "return" /\ pc' = "idle")
            => flushTooLong' = (now - start > config.FlushPeriod.Duration)
       /\ flushTooLong' # flushTooLong => (pc = "return" /\ pc' = "idle")]_vars

\* a slow flush set the flag and the quick flush after it cleared it
C9_Witness ==
    /\ pc = "idle"
    /\ Len(d) = 2
    /\ d[1] > config.FlushPeriod.Duration
    /\ d[2] <= config.FlushPeriod.Duration
    /\ ~flushTooLong

\* the containers of seq up to and including the j-th
Prefix(seq, j) == SubSeq(seq, 1, j)

\* convert has returned and the flush has not: what it was given and what
\* it returned are both at hand
Converted == pc \in {"send", "return"}
Truncated == Len(dynTimeSeries) < Len(samplesContainers)
Pending == SubSeq(samplesContainers, Len(dynTimeSeries) + 1, Len(samplesContainers))

\* C10 as stated: with the flag active, a conversion that passed the mark
\* with containers still pending returns fewer records than the full
\* conversion.
C10_TruncatedIsShorter ==
    (Converted /\ flushTooLong /\ Count(dynTimeSeries) > HighWaterMark /\ Truncated)
        => Count(dynTimeSeries) < Count(samplesContainers)

\* C10 amended: what convert returns is a prefix of the full conversion;
\* with the flag active no container is converted once the records exceed
\* the mark; it stops early only then, so a truncated result is not empty;
\* and it is strictly shorter than the full conversion exactly when the
\* pending containers would have contributed at least one record.
C10_ShedsAboveMark ==
    Converted =>
        /\ dynTimeSeries = Prefix(samplesContainers, Len(dynTimeSeries))
        /\ flushTooLong =>
              \A j \in 1..(Len(dynTimeSeries) - 1) :
                  Count(Prefix(dynTimeSeries, j)) <= HighWaterMark
        /\ Truncated => (flushTooLong /\ Count(dynTimeSeries) > HighWaterMark)
        /\ Truncated
              => (Count(dynTimeSeries) < Count(samplesContainers)
                     <=> Count(Pending) > 0)

C10_Witness ==
    /\ Converted
    /\ flushTooLong
    /\ Len(samplesContainers) = 3
    /\ Len(dynTimeSeries) = 2
    /\ Count(dynTimeSeries) = HighWaterMark + 1
    /\ Count(Pending) > 0

\* C11: with the flag inactive, what convert returns is the conversion of
\* every container it was given, in their order and each whole, so as many
\* records as there are samples however many there are, and no container's
\* records appear twice.
C11_FullConversion ==
    (Converted /\ ~flushTooLong) =>
        /\ dynTimeSeries = samplesContainers
        /\ Count(dynTimeSeries) = Count(samplesContainers)
        /\ \A i, j \in 1..Len(dynTimeSeries) :
              i # j => dynTimeSeries[i].id # dynTimeSeries[j].id

\* the records passed the mark after the second container, and the third
\* was converted all the same
C11_Witness ==
    /\ Converted
    /\ ~flushTooLong
    /\ Len(samplesContainers) = 3
    /\ Count(Prefix(samplesContainers, 2)) > HighWaterMark
    /\ samplesContainers[3].n = 1
    /\ dynTimeSeries = samplesContainers

\* C12: once Stop has returned no flush is running (so none has started
\* since), and every flush that was started, the one in progress when Stop
\* was called included, has returned.
C12_StopWaitsForFlush ==
    periodicFlusher = "stopped" =>
        /\ pc = "idle"
        /\ Len(d) = flushes
        /\ stopPc # "none"

\* Stop was called during a flush and has returned after that flush and
\* the last one
C12_Witness ==
    /\ periodicFlusher = "stopped"
    /\ stopPc = "busy"
    /\ flushes = 2
    /\ Len(d) = 2

Ids(containers) == [i \in 1..Len(containers) |-> containers[i].id]

\* C14: the containers the drains returned, followed by those still in
\* the buffer, are the containers handed to AddMetricSamples, each once
\* and in the order they came (so none is lost, none is returned by two
\* drains, none drained is back in the buffer); what a flush holds is what
\* the last drain returned.
C14_DrainedOnce ==
    /\ drained \o Ids(buffer) = [i \in 1..nextId |-> i]
    /\ Len(samplesContainers) <= Len(drained)
    /\ Ids(samplesContainers) =
          SubSeq(drained, Len(drained) - Len(samplesContainers) + 1, Len(drained))

\* the second flush drained the container appended during the first, and
\* a third container was appended while the second flush runs
C14_Witness ==
    /\ pc = "send"
    /\ flushes = 2
    /\ drained = <<1, 2>>
    /\ Ids(samplesContainers) = <<2>>
    /\ Ids(buffer) = <<3>>

\* C18: all through a flush, until it returns, flushTooLong is what the
\* flush before it left (elapsed time of that flush > flush period), and
\* FALSE in the first flush.
C18_FlagFromPreviousFlush ==
    pc \in {"convert", "send", "return"} =>
        /\ Len(d) = flushes - 1
        /\ flushTooLong = IF Len(d) = 0 THEN FALSE
                          ELSE d[Len(d)] > config.FlushPeriod.Duration

\* the second flush has run past the flush period itself and still reads
\* the FALSE the quick first flush left
C18_Witness ==
    /\ pc = "return"
    /\ flushes = 2
    /\ d[1] <= config.FlushPeriod.Duration
    /\ now - start > config.FlushPeriod.Duration
    /\ ~flushTooLong

\* C19: at every point of convert and after it the records are those of
\* whole containers, the first container is converted whatever the flag
\* says, and with the flag active the records before the last converted
\* container do not exceed the mark (the result exceeds it by at most the
\* size of that container).
C19_WholeContainers ==
    pc \in {"convert", "send", "return"} =>
        /\ \A i \in 1..Len(dynTimeSeries) : dynTimeSeries[i] = samplesContainers[i]
        /\ (Converted /\ Len(samplesContainers) > 0) => Len(dynTimeSeries) >= 1
        /\ (flushTooLong /\ Len(dynTimeSeries) > 0)
              => Count(dynTimeSeries) - dynTimeSeries[Len(dynTimeSeries)].n
                    <= HighWaterMark

\* the second container crossed the mark: the result exceeds it by the
\* size of that container, and the third was left out
C19_Witness ==
    /\ Converted
    /\ flushTooLong
    /\ Len(samplesContainers) = 3
    /\ Len(dynTimeSeries) = 2
    /\ Count(dynTimeSeries) = 2 * HighWaterMark

----------------------------------------------------------------------------
(* SpecProcess: several Outputs in one process.  Each has its own          *)
(* periodic flusher, whose goroutine waits on the ticker and calls flush;  *)
(* flushTooLong is the one package variable they all read and write.  An   *)
(* Output is [pc, tick, start, seen, inFlight]: where its flush is,        *)
(* whether the ticker's channel holds a tick, flush's start, what convert  *)
(* read in flushTooLong, and the executions of flush under way.            *)

Outputs == 1..NumOutputs

\* the other parts of an Output do not move under this specification
OutRest ==
    <<alive, config, periodicFlusher, buffer, nextId, pc, final, start,
      samplesContainers, idx, dynTimeSeries, nts, d, flushes, lastSend, drained,
      stopPc>>

\* the flusher starting flush in a goroutine of its own on every tick
MutFlusherSpawns(o) == TRUE
\* the flusher's goroutine calls flush itself: it takes the next tick only
\* when the call before has returned
FlusherAtSelect(o) == o.pc = "idle"

\* flush of Output o is at the check of convert / at its deferred write
Reads(o) == outs[o].pc = "convert"
Writes(o) == outs[o].pc = "return"

\* what the deferred function of Output o writes if it runs now
Written(o) == TookTooLong(now - outs[o].start, config.FlushPeriod.Duration)

\* a read of flushTooLong by Output o: the variable's value, or the value
\* another Output's unsynchronized write is putting there at that moment
ReadFlag(o) ==
    {flushTooLong} \cup {Written(b) : b \in {x \in Outputs \ {o} : Writes(x)}}

InitProcess ==
    /\ outs = [o \in Outputs |->
                  [pc |-> "idle", tick |-> FALSE, start |-> 0, seen |-> FALSE,
                   inFlight |-> 0]]
    /\ OutIdle
    /\ CfgIdle
    /\ FinIdle
    /\ NewIdle

\* time passes
ProcessAdvance ==
    /\ now < MaxTime
    /\ now' = now + 1
    /\ UNCHANGED <<flushTooLong, outs, OutRest, cfgVars, finVars, newVars>>

\* the ticker of Output o fires: its channel holds one tick, a tick that
\* finds it full is dropped
Tick(o) ==
    /\ outs' = [outs EXCEPT ![o].tick = TRUE]
    /\ UNCHANGED <<flushTooLong, now, OutRest, cfgVars, finVars, newVars>>

\* the flusher of Output o takes the tick and flush begins: start = time.Now()
FlushBegin(o) ==
    /\ outs[o].tick
    /\ FlusherAtSelect(outs[o])
    /\ outs' = [outs EXCEPT ![o].tick = FALSE,
                            ![o].pc = "convert",
                            ![o].start = now,
                            ![o].inFlight = @ + 1]
    /\ UNCHANGED <<flushTooLong, now, OutRest, cfgVars, finVars, newVars>>

\* convert of Output o reads flushTooLong in its check
Convert(o) ==
    /\ Reads(o)
    /\ \E v \in ReadFlag(o) :
          outs' = [outs EXCEPT ![o].seen = v, ![o].pc = "send"]
    /\ UNCHANGED <<flushTooLong, now, OutRest, cfgVars, finVars, newVars>>

\* the send of Output o is answered
Send(o) ==
    /\ outs[o].pc = "send"
    /\ outs' = [outs EXCEPT ![o].pc = "return"]
    /\ UNCHANGED <<flushTooLong, now, OutRest, cfgVars, finVars, newVars>>

\* flush of Output o returns: its deferred function writes flushTooLong
FlushEnd(o) ==
    /\ Writes(o)
    /\ flushTooLong' = Written(o)
    /\ outs' = [outs EXCEPT ![o].pc = "idle",
                            ![o].start = 0,
                            ![o].seen = FALSE,
                            ![o].inFlight = @ - 1]
    /\ UNCHANGED <<now, OutRest, cfgVars, finVars, newVars>>

NextProcess ==
    \/ ProcessAdvance
    \/ \E o \in Outputs : Tick(o)
    \/ \E o \in Outputs : FlushBegin(o)
    \/ \E o \in Outputs : Convert(o)
    \/ \E o \in Outputs : Send(o)
    \/ \E o \in Outputs : FlushEnd(o)

SpecProcess == InitProcess /\ [][NextProcess]_vars

\* C13: no Output ever has two executions of flush under way.
C13_OneFlushAtATime == \A o \in Outputs : outs[o].inFlight <= 1

\* a tick has fired while the flush before it is still at its send
C13_Witness ==
    \E o \in Outputs :
        /\ outs[o].pc = "send"
        /\ outs[o].tick
        /\ outs[o].inFlight = 1
        /\ now > outs[o].start

\* C15: no write of flushTooLong at the end of a flush is concurrent with
\* a read of it in convert, or with another such write, by another Output.
C15_FlagAccessSynchronized ==
    \A a, b \in Outputs :
        (a # b /\ Writes(b)) => ~(Reads(a) \/ Writes(a))

----------------------------------------------------------------------------
(* The environment's texts that do not parse (SpecMerge)                   *)

\* the environment defines the boolean field k with a text strconv.ParseBool
\* rejects (the empty text is one)
EnvBoolUnparsable(k) ==
    EnvName(k) \in DOMAIN env /\ ParseBool(env[EnvName(k)]).err # ""

\* the environment defines the flush period with a text UnmarshalText
\* rejects (the empty text it takes as the null duration)
EnvFlushPeriodUnparsable ==
    /\ EnvName("flushPeriod") \in DOMAIN env
    /\ UnmarshalText(ZeroDuration, env[EnvName("flushPeriod")]).err # ""

\* C17: a call of GetConsolidatedConfig whose environment defines the
\* flush period or a boolean field with a text that does not parse returns
\* an error.
C17_EnvParseErrorSurfaces ==
    (cfgPc = "merged"
        /\ (EnvFlushPeriodUnparsable \/ \E k \in BoolFields : EnvBoolUnparsable(k)))
      => err # ""

\* JSON sets keepTags, the environment gives it a text that is no boolean:
\* the call fails with the error of ParseBool
C17_Witness ==
    /\ cfgPc = "merged"
    /\ jsonRawConf.kind = "object"
    /\ "keepTags" \in DOMAIN jsonRawConf.fields
    /\ jsonRawConf.fields["keepTags"] = JsonBoolean("false")
    /\ EnvName("keepTags") \in DOMAIN env
    /\ env[EnvName("keepTags")] = "maybe"
    /\ err = "strconv.ParseBool: invalid syntax"

----------------------------------------------------------------------------
(* SpecNew: New on the inputs of the merge                                 *)

\* the finalize New calls on the merged Config
ConstructRemoteConfig(c) == ConstructConfig(c)

\* New: [output, err]; output is [isNil, config]
New(raw, e, a) ==
    LET merged == GetConsolidatedConfig(raw, e, a)
    IN  IF merged.err # ""
        THEN [output |-> [isNil |-> TRUE, config |-> ZeroConfig], err |-> merged.err]
        ELSE LET fin == ConstructRemoteConfig(merged.c)
             IN  IF fin.err # ""
                 THEN [output |-> [isNil |-> TRUE, config |-> ZeroConfig],
                       err |-> fin.err]
                 ELSE [output |-> [isNil |-> FALSE, config |-> fin.c], err |-> ""]

InitNew ==
    /\ \E E \in Entries :
          /\ jsonRawConf \in JsonBlobs(ItemsOf(E, "json"))
          /\ env \in Envs(ItemsOf(E, "env"))
          /\ arg \in Args(ItemsOf(E, "arg"))
    /\ cfgPc = "idle"
    /\ result = ZeroConfig
    /\ err = ""
    /\ newPc = "start"
    /\ newOutput = [isNil |-> TRUE, config |-> ZeroConfig]
    /\ newErr = ""
    /\ FinIdle
    /\ OutIdle
    /\ ProcIdle

CallNew ==
    /\ newPc = "start"
    /\ LET r == New(jsonRawConf, env, arg)
       IN  /\ newOutput' = r.output
           /\ newErr' = r.err
    /\ newPc' = "returned"
    /\ UNCHANGED <<cfgVars, finVars, outVars, procVars>>

NextNew == CallNew

SpecNew == InitNew /\ [][NextNew]_vars

\* a layer gives the flush period a text that is no duration
DurationTextUnparsable ==
    \/ /\ JsonHas(jsonRawConf, "flushPeriod", "str")
       /\ ParseExtendedDuration(jsonRawConf.fields["flushPeriod"].v).err # ""
    \/ EnvFlushPeriodUnparsable
    \/ /\ ParamIs(arg, "flushPeriod", "str")
       /\ UnmarshalText(ZeroDuration, arg.params["flushPeriod"].v).err # ""

\* a layer gives a boolean field a text that is no boolean
BoolTextUnparsable ==
    \E k \in BoolFields :
        \/ JsonHas(jsonRawConf, k, "str")
        \/ EnvBoolUnparsable(k)
        \/ ParamIs(arg, k, "str")

\* the merged Config, where the merge succeeds, has no token / a URL that
\* does not parse
MergedConfig == GetConsolidatedConfig(jsonRawConf, env, arg)
TokenMissing == MergedConfig.err = "" /\ Len(MergedConfig.c.ApiToken.String) = 0
UrlUnparsable ==
    /\ MergedConfig.err = ""
    /\ UrlParse(MergedConfig.c.Url \o defaultDynatraceMetricEndPoint).err # ""

\* C16: New returns an error and no Output when the JSON blob or the
\* argument string is malformed, a duration or boolean text does not
\* parse, the API token is missing or empty, or the URL does not parse;
\* and it returns an Output only with no error.
C16_InvalidConfigRejected ==
    newPc = "returned" =>
        /\ (\/ jsonRawConf.kind = "malformed"
            \/ arg.kind = "malformed"
            \/ DurationTextUnparsable
            \/ BoolTextUnparsable
            \/ TokenMissing
            \/ UrlUnparsable)
              => (newOutput.isNil /\ newErr # "")
        /\ ~newOutput.isNil => newErr = ""

====
